---- MODULE Spec2Model ----
(***************************************************************************)
(* website-finder: the domain-probing route (src/app/api/search/route.ts)  *)
(* and the client-side result aggregator (src/context/SearchContext.tsx).  *)
(*                                                                         *)
(* The specifications share the variables:                                 *)
(*   Spec         one keyword search request served by POST                *)
(*   SingleSpec   one request with singleDomain, its writes settling       *)
(*   CancelSpec   a keyword search whose consumer cancels the stream       *)
(*   RequestSpec  a request of either kind, with the stream's backpressure *)
(*   PoolSpec     several requests sharing the module-level browserPool    *)
(*   AggSpec      the SearchProvider under updates, rechecks and sweeps    *)
(*   ViewSpec     filteredResults under the provider's filters             *)
(*   ClassifySpec getErrorDetails on the failures it is handed             *)
(*   ReaderSpec   the response body cut into chunks, and the reader loops  *)
(*                                                                         *)
(* JavaScript runs one callback at a time, so an action is the code        *)
(* between two awaits: it starts where a promise settles and runs up to    *)
(* the next await (the call that creates the next promise included).       *)
(***************************************************************************)
EXTENDS Integers, Sequences, FiniteSets, TLC

\* ------------------------------------------------------------- bounds
\* Length of the TLD list (TLDS.length) of the modelled search.
NumTlds == 3
\* Number of concurrent requests in PoolSpec.
NumRequests == 4
\* Longest log history a record of AggSpec grows to.
MaxLogs == 3
\* Latest clock value of AggSpec, in steps of TickMs.
MaxTicks == 3
\* Number of domains whose updates reach the provider of AggSpec.
NumAggDomains == 1
\* Number of exceptions the browser engine raises in one run of Spec, apart
\* from navigation and screenshot failures.
MaxFaults == 1
\* Number of domains whose records ViewSpec ranks and filters.
MaxShown == 5
\* Number of records the server writes in ReaderSpec.
MaxRecords == 4
\* Longest chunk, in characters, that a read of ReaderSpec hands over.
MaxChunk == 8

\* route.ts:87 sets 20; the model runs the scheduler with a ceiling of 2 so
\* that the ceiling is reached and passed by a list of NumTlds domains.
MAX_CONCURRENT_PAGES == 2

\* ---------------------------------------------------- program constants
MAX_POOL_SIZE == 3
maxSize == 500000
timeoutThreshold == 35000
\* The step of AggSpec's clock, in ms: half the watchdog threshold.
TickMs == timeoutThreshold \div 2

Absent == "<absent>"

VARIABLES
  \* ---- POST of route.ts, one request
  mainPc,           \* position of POST: "getBrowser", "launching", "serving"
  browser,          \* the Browser this request acquired (Absent before)
  browserPool,      \* module-level idle pool, a sequence of browser ids
  browserClosed,    \* browsers on which close() was called
  isAborted,
  abortPc,          \* abort listener: "none", "closing", "done"
  writerClosed,     \* writer.close() was called on the stream's writer
  streamErr,        \* error the consumer put the stream in, or "none"
  activeTasks,
  currentTldIndex,
  chk,              \* checkCompletion: "off", "armed" (timer pending), "done"
  releases,         \* number of releaseBrowser(browser) calls of this request
  pc,               \* per task: the await the task is suspended at
  sub,              \* per task: the await inside sendUpdate, or "-"
  wres,             \* per task: how the pending writer.write settles
  err,              \* per task: the message of the error being handled
  page,             \* per task: "none", "open", "closed"
  pageId,           \* per task: which page of the browser it opened (0: none)
  title,            \* per task: the title read by page.title()
  sent,             \* per task: the records written to the stream, in order
  faults,           \* engine exceptions raised so far
  \* ---- browser pool under several requests
  reqPc,            \* per request: "idle", "launching", "waiting", "holding", "aborted", "done"
  reqBrowser,       \* per request: the browser it holds
  launched,         \* number of browsers puppeteer.launch created
  \* ---- SearchProvider
  results,          \* the results array of DomainResult records
  now,              \* Date.now(), in ms
  recheck,          \* the domains whose recheckDomain stream is being read
  hist,             \* per domain: what was applied since the record was created
  swept,            \* the last step of the provider was the sweep
  filters,          \* the provider's filters state
  classified,       \* ClassifySpec: the last two failures getErrorDetails was given
  engine,           \* per task: how its awaited engine calls settled
  tldIdx,           \* per task: the currentTldIndex its line 191 read (-1: none)
  singleDomain,     \* the singleDomain of the request body (<<>>: none, a keyword search)
  \* ---- the response body on its way to a reader
  wire,             \* the characters the server wrote to the stream, in order
  taken,            \* how many of them reader.read() has handed over
  reader,           \* whose loop reads: "none", "search", "recheck", "failed"
  handed            \* the records the reader's loop applied, in order

sharedVars == <<browserPool, browserClosed>>
srvVars == <<mainPc, browser, isAborted, abortPc, writerClosed, streamErr, activeTasks,
             currentTldIndex, chk, releases, pc, sub, wres, err, page, pageId, title,
             sent, faults, engine, tldIdx>>
poolVars == <<reqPc, reqBrowser, launched>>
aggVars == <<results, now, recheck, hist, swept>>
viewVars == <<filters>>
classVars == <<classified>>
reqVars == <<singleDomain>>
readVars == <<wire, taken, reader, handed>>
vars == <<sharedVars, srvVars, poolVars, aggVars, viewVars, classVars, reqVars, readVars>>

Tasks == 1..NumTlds
Requests == 1..NumRequests

\* ------------------------------------------------------------- tlds.ts
keyword == "shop"
HIGH_PRIORITY_TLDS == <<"com", "net">>
\* The entries of tlds.txt that are not high priority, as many as the bound
\* NumTlds leaves room for.
regularTlds == SubSeq(<<"zone", "wiki", "vip", "xyz">>, 1, NumTlds - Len(HIGH_PRIORITY_TLDS))
TLDS == HIGH_PRIORITY_TLDS \o regularTlds
isHighPriorityTld(tld) == \E i \in 1..Len(HIGH_PRIORITY_TLDS) : HIGH_PRIORITY_TLDS[i] = tld
\* the TLD of task t: TLDS[currentTldIndex++] with the 0-based index t - 1
TldOf(t) == TLDS[t]
\* `${keyword}.${TLDS[currentTldIndex++]}`
DomainOf(t) == <<keyword, ".", TldOf(t)>>
\* Line 191: const domain = singleDomain || `${keyword}.${TLDS[currentTldIndex++]}`.
TaskDomain(t) == IF singleDomain # <<>> THEN singleDomain ELSE DomainOf(t)

\* ------------------------------------------------------ getErrorDetails
\* A classifier that tests for an invalid response before the ssl rule.
getErrorDetailsInvalidFirst(message) ==
  IF message = <<"Timeout">>
    THEN [status |-> "timeout", message |-> "Request timed out after 35 seconds",
          code |-> "TIMEOUT"]
  ELSE IF \E i \in 1..Len(message) : message[i] = "net::ERR_CONNECTION_REFUSED"
    THEN [status |-> "connection_refused", message |-> "Connection refused by the server",
          code |-> "CONNECTION_REFUSED"]
  ELSE IF \E i \in 1..Len(message) : message[i] = "net::ERR_NAME_NOT_RESOLVED"
    THEN [status |-> "dns_error", message |-> "Domain name could not be resolved",
          code |-> "DNS_ERROR"]
  ELSE IF \E i \in 1..Len(message) : message[i] = "net::ERR_INVALID_RESPONSE"
    THEN [status |-> "invalid_response", message |-> "Server returned an invalid response",
          code |-> "INVALID_RESPONSE"]
  ELSE IF \E i \in 1..Len(message) :
            message[i] \in {"net::ERR_CERT_AUTHORITY_INVALID", "net::ERR_SSL_PROTOCOL_ERROR",
                            "ssl", "sslshop"}
    THEN [status |-> "ssl_error", message |-> "SSL/TLS certificate error",
          code |-> "SSL_ERROR"]
  ELSE [status |-> "internal_error", message |-> "Failed to connect to domain",
        code |-> "UNKNOWN_ERROR"]

\* An Error's message is a sequence of words; a word contains a needle as
\* listed by Fragments (String.prototype.includes on the lower-cased text).
toLowerCase(w) ==
  CASE w = "Timeout" -> "timeout"
    [] w = "net::ERR_CONNECTION_REFUSED" -> "net::err_connection_refused"
    [] w = "net::ERR_NAME_NOT_RESOLVED" -> "net::err_name_not_resolved"
    [] w = "net::ERR_CERT_AUTHORITY_INVALID" -> "net::err_cert_authority_invalid"
    [] w = "net::ERR_SSL_PROTOCOL_ERROR" -> "net::err_ssl_protocol_error"
    [] w = "net::ERR_INVALID_RESPONSE" -> "net::err_invalid_response"
    [] w = "net::ERR_ABORTED" -> "net::err_aborted"
    [] OTHER -> w

Fragments(w) ==
  CASE w = "net::err_connection_refused" -> {"net::err_connection_refused"}
    [] w = "net::err_name_not_resolved" -> {"net::err_name_not_resolved"}
    [] w = "net::err_cert_authority_invalid" -> {"net::err_cert_"}
    [] w = "net::err_ssl_protocol_error" -> {"ssl"}
    [] w = "net::err_invalid_response" -> {"net::err_invalid_response"}
    [] w = "ssl" -> {"ssl"}
    [] w = "sslshop" -> {"ssl"}
    [] OTHER -> {}

includes(message, needle) ==
  \E i \in 1..Len(message) : needle \in Fragments(toLowerCase(message[i]))

getErrorDetails(message) ==
  IF message = <<"Timeout">>
    THEN [status |-> "timeout", message |-> "Request timed out after 35 seconds",
          code |-> "TIMEOUT"]
  ELSE IF includes(message, "net::err_connection_refused")
    THEN [status |-> "connection_refused", message |-> "Connection refused by the server",
          code |-> "CONNECTION_REFUSED"]
  ELSE IF includes(message, "net::err_name_not_resolved")
    THEN [status |-> "dns_error", message |-> "Domain name could not be resolved",
          code |-> "DNS_ERROR"]
  ELSE IF includes(message, "net::err_cert_") \/ includes(message, "ssl")
    THEN [status |-> "ssl_error", message |-> "SSL/TLS certificate error",
          code |-> "SSL_ERROR"]
  ELSE IF includes(message, "net::err_invalid_response")
    THEN [status |-> "invalid_response", message |-> "Server returned an invalid response",
          code |-> "INVALID_RESPONSE"]
  ELSE [status |-> "internal_error", message |-> "Failed to connect to domain",
        code |-> "UNKNOWN_ERROR"]

\* The message puppeteer's page.goto rejects with: "<code> at https://<domain>".
NavError(code, t) == <<code, "at", "https://">> \o TaskDomain(t)
\* Failure codes the navigation of the modelled search may end with.
NavCodes == {"net::ERR_NAME_NOT_RESOLVED"}
CLIENT_DISCONNECTED == <<"CLIENT_DISCONNECTED">>
\* Any exception of the browser engine other than a navigation failure.
EngineError == <<"Protocol", "error">>
NoError == <<>>

\* ------------------------------------------------------------ sendUpdate
\* The state POST's closures read and write, threaded through the code of
\* one action.
Srv == [pc |-> pc, sub |-> sub, wres |-> wres, err |-> err, page |-> page,
        pageId |-> pageId,
        title |-> title, sent |-> sent, isAborted |-> isAborted,
        writerClosed |-> writerClosed, activeTasks |-> activeTasks,
        currentTldIndex |-> currentTldIndex, browserPool |-> browserPool,
        browserClosed |-> browserClosed, releases |-> releases, engine |-> engine,
        tldIdx |-> tldIdx]

\* isHighPriorityTld(domain.split('.').pop() || '')
isHighPriority(t) == isHighPriorityTld(TaskDomain(t)[Len(TaskDomain(t))])

\* A JavaScript object with optional fields: has is the set of the fields
\* that are present, an absent field holds the blank of its type; undef is
\* the set of the fields an object literal sets to undefined.
Blank == [domain |-> <<>>, status |-> "", title |-> "", screenshot |-> "",
          favicon |-> "", responseTime |-> 0, error |-> "", errorCode |-> "",
          isHighPriority |-> FALSE, logs |-> <<>>, type |-> "", timestamp |-> 0,
          has |-> {}, undef |-> {}]
Obj(r) == [f \in DOMAIN Blank |->
             IF f = "has" THEN DOMAIN r ELSE IF f \in DOMAIN r THEN r[f] ELSE Blank[f]]
Log(message, type) == [message |-> message, type |-> type]

\* Date.now() - startTime of task t; the server's clock is not modelled.
Elapsed(t) == 100 * t

\* The DomainUpdate each call site of sendUpdate passes.
Update(s, t, site) ==
  LET d == getErrorDetails(s.err[t])
  IN CASE site = "loading" ->
            Obj([domain |-> TaskDomain(t), status |-> "loading", title |-> "",
                 screenshot |-> "", isHighPriority |-> isHighPriority(t),
                 logs |-> <<Log("Starting domain check...", "info")>>])
       [] site = "attempt" ->
            Obj([domain |-> TaskDomain(t),
                 logs |-> <<Log("Attempting to connect to domain...", "info")>>])
       [] site = "connected" ->
            Obj([domain |-> TaskDomain(t),
                 logs |-> <<Log("Successfully connected to domain", "success")>>])
       [] site = "titlelog" ->
            Obj([domain |-> TaskDomain(t), logs |-> <<Log("Retrieved page title", "info")>>])
       [] site = "taking" ->
            Obj([domain |-> TaskDomain(t), logs |-> <<Log("Taking screenshot...", "info")>>])
       [] site = "shotfail" ->
            Obj([domain |-> TaskDomain(t), status |-> "invalid_response",
                 title |-> s.title[t], screenshot |-> "", responseTime |-> Elapsed(t),
                 error |-> "Site is live but screenshot failed",
                 errorCode |-> "SCREENSHOT_FAILED", isHighPriority |-> isHighPriority(t),
                 logs |-> <<Log("Failed to capture screenshot (size limit exceeded)",
                                "error")>>])
       [] site = "success" ->
            Obj([domain |-> TaskDomain(t), status |-> "success", title |-> s.title[t],
                 screenshot |-> "data:image/jpeg;base64", responseTime |-> Elapsed(t),
                 isHighPriority |-> isHighPriority(t),
                 logs |-> <<Log("Domain check completed successfully", "success")>>])
       [] site = "fail" ->
            Obj([domain |-> TaskDomain(t), status |-> d.status, title |-> "",
                 screenshot |-> "", responseTime |-> Elapsed(t), error |-> d.message,
                 errorCode |-> d.code, isHighPriority |-> isHighPriority(t),
                 logs |-> <<Log(d.message, "error")>>])
       [] site = "closedlog" ->
            Obj([domain |-> TaskDomain(t), logs |-> <<Log("Closed browser page", "info")>>])
       [] site = "internal" ->
            Obj([domain |-> TaskDomain(t), status |-> "internal_error",
                 error |-> "Internal processing error", errorCode |-> "INTERNAL_ERROR",
                 isHighPriority |-> isHighPriority(t),
                 logs |-> <<Log("Internal processing error occurred", "error")>>])

\* if (update.screenshot): present and not the empty string.
HasScreenshot(u) == "screenshot" \in u.has /\ u.screenshot # ""

\* A slip in the split: the update is written whole before its screenshot.
FirstRecordWhole(u) == u

\* The first record sendUpdate writes for an update: the update itself, or
\* with a screenshot the statusUpdate, whose screenshot is undefined (dropped
\* by JSON.stringify) and whose logs is the one 'Processing screenshot...' entry.
FirstRecord(u) ==
  IF HasScreenshot(u)
    THEN [u EXCEPT !.screenshot = Blank.screenshot, !.has = (@ \ {"screenshot"}) \cup {"logs"},
                   !.logs = <<Log("Processing screenshot...", "info")>>]
    ELSE u

\* The screenshotUpdate {domain, screenshot, type: 'screenshot'}.
SecondRecord(u) ==
  Obj([domain |-> u.domain, screenshot |-> u.screenshot, type |-> "screenshot"])

\* How writer.write settles: a writer on which close() was called rejects
\* with a TypeError, a stream the consumer errored rejects with that error.
WriteOutcome(s) ==
  IF s.writerClosed THEN "TypeError"
  ELSE IF streamErr # "none" THEN streamErr
  ELSE "ok"

\* writer.write(record) called by task t: the record is in the stream iff the
\* write is accepted; the task then awaits the promise.
WriteRecord(s, t, rec, phase) ==
  LET o == WriteOutcome(s)
  IN [s EXCEPT !.sub[t] = phase, !.wres[t] = o,
               !.sent[t] = IF o = "ok" THEN Append(@, rec) ELSE @]

\* sendUpdate past its isAborted test: the first writer.write.
SendWrite(s, t, site) ==
  WriteRecord([s EXCEPT !.pc[t] = site], t, FirstRecord(Update(s, t, site)), "w1")

\* getBrowser() on the pool, up to its await: the browser popped from the
\* end of the pool, else a launch when the pool (which pop just found empty)
\* is shorter than MAX_POOL_SIZE, else the 1 s wait before the retry.
getBrowser(pool) ==
  IF Len(pool) > 0
    THEN [kind |-> "pooled", browser |-> pool[Len(pool)],
          pool |-> SubSeq(pool, 1, Len(pool) - 1)]
  ELSE IF Len(pool) < MAX_POOL_SIZE
    THEN [kind |-> "launch", browser |-> Absent, pool |-> pool]
  ELSE [kind |-> "wait", browser |-> Absent, pool |-> pool]

\* releaseBrowser(b) on the pool, up to its await: pushed, or closed.
releaseBrowser(pool, b) ==
  IF Len(pool) < MAX_POOL_SIZE
    THEN [pool |-> Append(pool, b), closed |-> {}]
    ELSE [pool |-> pool, closed |-> {b}]

\* releaseBrowser(browser) called by the request of Spec.
ReleaseOwn(s) ==
  LET r == releaseBrowser(s.browserPool, browser)
  IN [s EXCEPT !.browserPool = r.pool, !.browserClosed = @ \cup r.closed,
               !.releases = @ + 1]

\* ------------------------------------------------------ processNextDomain
\* Task t suspends at an await outside sendUpdate.
Suspend(s, t, at) == [s EXCEPT !.pc[t] = at, !.sub[t] = "-", !.wres[t] = "ok"]

\* The invocation is over: its locals are gone.
Finish(s, t, how) ==
  [Suspend(s, t, how) EXCEPT !.err[t] = NoError, !.title[t] = ""]

\* A page-reuse slip: every task takes the browser's first page.
NewPageReused(s) == 1

\* browser.newPage() creates a Page that is none of the pages the browser
\* has (open, or being created); pages are named by number, the smallest
\* that none of them has.
NewPage(s) ==
  CHOOSE n \in 1..(NumTlds + 1) :
    /\ \A t \in Tasks : s.pageId[t] # n
    /\ \A m \in 1..(n - 1) : \E t \in Tasks : s.pageId[t] = m

\* page = await browser.newPage() assigns the task's own variable.
OpenPage(s, t) == [s EXCEPT !.page[t] = "open"]
ClosePage(s, t) == [s EXCEPT !.page[t] = "closed", !.pageId[t] = 0]

\* The invocations of processNextDomain are numbered in the order of their
\* calls; the model follows NumTlds of them. In a keyword search invocation
\* t is the one that reads TLDS[t - 1].
Invocation(s) == Cardinality({t \in Tasks : s.pc[t] # "pending"}) + 1

\* A slip at line 191: the cursor is read but not advanced.
StartNextRereading(s) ==
  IF s.isAborted \/ (s.currentTldIndex >= Len(TLDS) /\ singleDomain = <<>>) THEN s
  ELSE IF Invocation(s) > NumTlds THEN s
  ELSE [s EXCEPT !.tldIdx[Invocation(s)] = IF singleDomain # <<>> THEN @ ELSE s.currentTldIndex,
                 !.activeTasks = @ + 1,
                 !.pc[Invocation(s)] = "newPage",
                 !.pageId[Invocation(s)] = NewPage(s)]

\* processNextDomain() up to its first await: the guard of line 189, the
\* increments, the cursor read by TLDS[currentTldIndex++] (not evaluated when
\* singleDomain is truthy), and the call of browser.newPage().
StartNext(s) ==
  IF s.isAborted \/ (s.currentTldIndex >= Len(TLDS) /\ singleDomain = <<>>) THEN s
  ELSE IF Invocation(s) > NumTlds THEN s
  ELSE [s EXCEPT !.currentTldIndex = IF singleDomain # <<>> THEN @ ELSE @ + 1,
                 !.tldIdx[Invocation(s)] = IF singleDomain # <<>> THEN @ ELSE s.currentTldIndex,
                 !.activeTasks = @ + 1,
                 !.pc[Invocation(s)] = "newPage",
                 !.pageId[Invocation(s)] = NewPage(s)]

\* A return inside the try blocks: the function ends there, lines 382-385
\* are not run.
Return(s, t) == Finish(s, t, "returned")

\* A slip at line 383: the test of singleDomain is left out.
TaskEndReplenishing(s, t) ==
  LET s1 == [Finish(s, t, "done") EXCEPT !.activeTasks = @ - 1]
  IN IF ~s1.isAborted /\ s1.activeTasks < MAX_CONCURRENT_PAGES THEN StartNext(s1) ELSE s1

\* Lines 382-385: the end of the function body, and the replenishment.
TaskEnd(s, t) ==
  LET s1 == [Finish(s, t, "done") EXCEPT !.activeTasks = @ - 1]
  IN IF ~s1.isAborted /\ s1.activeTasks < MAX_CONCURRENT_PAGES /\ singleDomain = <<>>
       THEN StartNext(s1) ELSE s1

\* Lines 361-379, the outer catch after its page?.close().
OuterCatchRest(s, t) ==
  IF s.err[t] = CLIENT_DISCONNECTED THEN Return(s, t)
  ELSE IF ~s.isAborted THEN SendWrite(s, t, "internal")
  ELSE TaskEnd(s, t)

\* Line 359-360: the outer catch receives error e and calls page?.close().
OuterCatch(s, t, e) ==
  LET s1 == [s EXCEPT !.err[t] = e]
  IN IF s1.page[t] = "none" THEN OuterCatchRest(s1, t) ELSE Suspend(s1, t, "catchClose")

\* Lines 348-358, after the inner try/catch.
AfterInner(s, t) ==
  IF ~s.isAborted THEN Suspend(s, t, "close") ELSE TaskEnd(s, t)

\* A slip in the inner catch: the caught error is not passed on to
\* getErrorDetails.
InnerCatchDropsError(s, t, e) ==
  IF s.isAborted THEN Suspend(s, t, "abClose3") ELSE SendWrite(s, t, "fail")

\* Lines 324-345: the inner catch receives error e.
InnerCatch(s, t, e) ==
  IF s.isAborted THEN Suspend(s, t, "abClose3")
  ELSE SendWrite([s EXCEPT !.err[t] = e], t, "fail")

\* sendUpdate called at site threw CLIENT_DISCONNECTED: the catch that
\* receives it (.catch(() => {}) at the last three sites).
Thrown(s, t, site) ==
  CASE site = "loading" -> OuterCatch(s, t, CLIENT_DISCONNECTED)
    [] site \in {"attempt", "connected", "titlelog", "taking", "shotfail", "success"} ->
         InnerCatch(s, t, CLIENT_DISCONNECTED)
    [] site = "fail" -> AfterInner(s, t)
    [] site \in {"closedlog", "internal"} -> TaskEnd(s, t)

\* sendUpdate without its isAborted test: the write is attempted, and its
\* rejection is swallowed by sendUpdate's catch.
CallSendUnguarded(s, t, site) == SendWrite(s, t, site)

\* await sendUpdate(...) at site, up to its first await.
CallSend(s, t, site) ==
  IF s.isAborted THEN Thrown(s, t, site) ELSE SendWrite(s, t, site)

\* sendUpdate called at site returned: the code that follows the call.
Continue(s, t, site) ==
  CASE site = "loading" ->
         IF s.isAborted THEN Suspend(s, t, "abClose1") ELSE CallSend(s, t, "attempt")
    [] site = "attempt" ->
         IF s.isAborted THEN Suspend(s, t, "abClose2") ELSE Suspend(s, t, "race")
    [] site = "connected" -> Suspend(s, t, "title")
    [] site = "titlelog" -> CallSend(s, t, "taking")
    [] site = "taking" -> Suspend(s, t, "screenshot")
    [] site = "shotfail" -> Return(s, t)
    [] site \in {"success", "fail"} -> AfterInner(s, t)
    [] site \in {"closedlog", "internal"} -> TaskEnd(s, t)

\* An off-by-one slip in the loop bound: i <= MAX_CONCURRENT_PAGES.
RECURSIVE StartLoopOffByOne(_, _)
StartLoopOffByOne(s, i) ==
  IF i <= MAX_CONCURRENT_PAGES /\ ~s.isAborted
    THEN StartLoopOffByOne(StartNext(s), i + 1) ELSE s

\* for (let i = 0; i < MAX_CONCURRENT_PAGES && !isAborted; i++) processNextDomain()
RECURSIVE StartLoop(_, _)
StartLoop(s, i) ==
  IF i < MAX_CONCURRENT_PAGES /\ ~s.isAborted THEN StartLoop(StartNext(s), i + 1) ELSE s

\* The closures' state after an action.
Commit(s) ==
  /\ pc' = s.pc /\ sub' = s.sub /\ wres' = s.wres /\ err' = s.err /\ page' = s.page
  /\ pageId' = s.pageId
  /\ title' = s.title /\ sent' = s.sent /\ isAborted' = s.isAborted
  /\ writerClosed' = s.writerClosed /\ activeTasks' = s.activeTasks
  /\ currentTldIndex' = s.currentTldIndex /\ browserPool' = s.browserPool
  /\ browserClosed' = s.browserClosed /\ releases' = s.releases
  /\ engine' = s.engine /\ tldIdx' = s.tldIdx

Sites == {"loading", "attempt", "connected", "titlelog", "taking", "shotfail",
          "success", "fail", "closedlog", "internal"}
Titles == {"Example Domain"}
\* Lengths of the base64 string page.screenshot may return.
ShotLengths == {maxSize, maxSize + 1}

\* A slip in the size test: one character over the cap is let through.
ScreenshotTooLargeOffByOne(n) == n > maxSize + 1

\* Lines 288-291: if (screenshot.length > maxSize) throw 'Screenshot too large'.
ScreenshotTooLarge(n) == n > maxSize

\* ---- POST
\* const browser = await getBrowser(), up to the await.
PostGetBrowser ==
  /\ mainPc = "getBrowser"
  /\ LET g == getBrowser(browserPool)
     IN /\ g.kind # "wait"
        /\ browser' = g.browser
        /\ browserPool' = g.pool
        /\ mainPc' = IF g.kind = "pooled" THEN "acquired" ELSE "launching"
  /\ UNCHANGED <<browserClosed, isAborted, abortPc, writerClosed, streamErr, activeTasks,
                 currentTldIndex, chk, releases, pc, sub, wres, err, page, pageId, title, sent, faults, engine, tldIdx>>
  /\ UNCHANGED <<poolVars, aggVars, viewVars, classVars, reqVars, readVars>>

\* puppeteer.launch() resolved.
PostLaunched ==
  /\ mainPc = "launching"
  /\ browser' = "b0"
  /\ mainPc' = "acquired"
  /\ UNCHANGED <<browserPool, browserClosed, isAborted, abortPc, writerClosed, streamErr,
                 activeTasks, currentTldIndex, chk, releases, pc, sub, wres, err, page,
                 pageId, title, sent, faults, engine, tldIdx>>
  /\ UNCHANGED <<poolVars, aggVars, viewVars, classVars, reqVars, readVars>>

\* Lines 122-413 after getBrowser: the abort listener is registered, the
\* first MAX_CONCURRENT_PAGES tasks are started, checkCompletion runs once
\* (tasks are in flight, so it arms its timer) and the Response is returned.
PostStart ==
  /\ mainPc = "acquired" /\ singleDomain = <<>>
  /\ mainPc' = "serving"
  /\ chk' = "armed"
  /\ Commit(StartLoop(Srv, 0))
  /\ UNCHANGED <<browser, abortPc, streamErr, faults>>
  /\ UNCHANGED <<poolVars, aggVars, viewVars, classVars, reqVars, readVars>>

\* Lines 122-389 of a request with singleDomain: the abort listener is
\* registered and POST awaits the one processNextDomain() it calls.
PostStartSingle ==
  /\ mainPc = "acquired" /\ singleDomain # <<>>
  /\ mainPc' = "awaiting"
  /\ Commit(StartNext(Srv))
  /\ UNCHANGED <<browser, abortPc, streamErr, chk, faults>>
  /\ UNCHANGED <<poolVars, aggVars, viewVars, classVars, reqVars, readVars>>

\* The awaited processNextDomain() settled. When it returned, checkCompletion
\* runs once (lines 396-407: it closes the writer and releases the browser,
\* or arms its timer) and the Response is returned; when it threw, POST
\* rejects there.
PostAwaited ==
  /\ mainPc = "awaiting" /\ pc[1] \in {"done", "returned", "threw"}
  /\ IF pc[1] = "threw"
       THEN /\ mainPc' = "rejected"
            /\ UNCHANGED <<sharedVars, isAborted, writerClosed, activeTasks, currentTldIndex,
                           chk, releases, pc, sub, wres, err, page, pageId, title, sent,
                           engine, tldIdx>>
       ELSE /\ mainPc' = "serving"
            /\ IF isAborted \/ activeTasks = 0
                 THEN chk' = "done" /\ Commit(ReleaseOwn([Srv EXCEPT !.writerClosed = TRUE]))
                 ELSE chk' = "armed" /\ Commit(Srv)
  /\ UNCHANGED <<browser, abortPc, streamErr, faults>>
  /\ UNCHANGED <<poolVars, aggVars, viewVars, classVars, reqVars, readVars>>

\* An abort listener that sets the flag but leaves the writer open.
AbortEventNoClose ==
  /\ mainPc \in {"serving", "awaiting"} /\ abortPc = "none" /\ chk # "done"
  /\ abortPc' = "closing"
  /\ Commit([Srv EXCEPT !.isAborted = TRUE])
  /\ UNCHANGED <<mainPc, browser, streamErr, chk, faults>>
  /\ UNCHANGED <<poolVars, aggVars, viewVars, classVars, reqVars, readVars>>

\* The request's abort event: isAborted = true; writer.close() is called.
AbortEvent ==
  /\ mainPc \in {"serving", "awaiting"} /\ abortPc = "none" /\ chk # "done"
  /\ abortPc' = "closing"
  /\ Commit([Srv EXCEPT !.isAborted = TRUE, !.writerClosed = TRUE])
  /\ UNCHANGED <<mainPc, browser, streamErr, chk, faults>>
  /\ UNCHANGED <<poolVars, aggVars, viewVars, classVars, reqVars, readVars>>

\* The abort listener after await writer.close(): releaseBrowser(browser).
AbortRelease ==
  /\ abortPc = "closing"
  /\ abortPc' = "done"
  /\ Commit(ReleaseOwn(Srv))
  /\ UNCHANGED <<mainPc, browser, streamErr, chk, faults>>
  /\ UNCHANGED <<poolVars, aggVars, viewVars, classVars, reqVars, readVars>>

\* The consumer cancels or errors the response stream; from then on every
\* write rejects with that error.
ConsumerCancel ==
  /\ mainPc = "serving" /\ streamErr = "none" /\ ~writerClosed
  /\ streamErr' \in {"ResponseAborted", "Error"}
  /\ UNCHANGED <<mainPc, browser, browserPool, browserClosed, isAborted, abortPc,
                 writerClosed, activeTasks, currentTldIndex, chk, releases, pc, sub, wres,
                 err, page, pageId, title, sent, faults, engine, tldIdx>>
  /\ UNCHANGED <<poolVars, aggVars, viewVars, classVars, reqVars, readVars>>

\* A checkCompletion that closes as soon as the list is exhausted, whatever
\* the number of active tasks.
CheckCompletionIgnoringActive ==
  /\ chk = "armed"
  /\ isAborted \/ currentTldIndex >= Len(TLDS) \/ singleDomain # <<>>
  /\ chk' = "done"
  /\ Commit(ReleaseOwn([Srv EXCEPT !.writerClosed = TRUE]))
  /\ UNCHANGED <<mainPc, browser, abortPc, streamErr, faults>>
  /\ UNCHANGED <<poolVars, aggVars, viewVars, classVars, reqVars, readVars>>

\* checkCompletion fired by its timer and closing: writer.close() and
\* releaseBrowser(browser). In its else branch it only re-arms the timer.
CheckCompletion ==
  /\ chk = "armed"
  /\ isAborted \/ (activeTasks = 0 /\ (currentTldIndex >= Len(TLDS) \/ singleDomain # <<>>))
  /\ chk' = "done"
  /\ Commit(ReleaseOwn([Srv EXCEPT !.writerClosed = TRUE]))
  /\ UNCHANGED <<mainPc, browser, abortPc, streamErr, faults>>
  /\ UNCHANGED <<poolVars, aggVars, viewVars, classVars, reqVars, readVars>>

\* ---- the awaits of processNextDomain
\* What the engine did for task t is noted: race is how the race of line 239
\* settled, title the title read, shot the length of the screenshot (-1 when
\* the capture threw), fault the awaits that rejected with an engine error.
Saw(s, t, f, v) == [s EXCEPT !.engine[t][f] = v]
Fault(s, t, at) == [s EXCEPT !.engine[t].fault = @ \cup {at}]
Step(s) ==
  /\ Commit(s)
  /\ UNCHANGED <<mainPc, browser, abortPc, streamErr, chk, faults>>
  /\ UNCHANGED <<poolVars, aggVars, viewVars, classVars, reqVars, readVars>>

\* The awaited engine call rejects.
FaultStep(s) ==
  /\ faults < MaxFaults
  /\ faults' = faults + 1
  /\ Commit(s)
  /\ UNCHANGED <<mainPc, browser, abortPc, streamErr, chk>>
  /\ UNCHANGED <<poolVars, aggVars, viewVars, classVars, reqVars, readVars>>

\* await browser.newPage() settles (line 199).
ResumeNewPage(t) ==
  /\ pc[t] = "newPage"
  /\ \/ Step(Suspend(OpenPage(Srv, t), t, "setViewport"))
     \/ FaultStep(OuterCatch(Fault([Srv EXCEPT !.pageId[t] = 0], t, "newPage"), t, EngineError))

\* await page.setViewport() settles (line 200); sendUpdate(loading) follows.
ResumeSetViewport(t) ==
  /\ pc[t] = "setViewport"
  /\ \/ Step(CallSend(Srv, t, "loading"))
     \/ FaultStep(OuterCatch(Fault(Srv, t, "setViewport"), t, EngineError))

\* await writer.write() settles inside sendUpdate (lines 152-185).
ResumeWrite(t) ==
  /\ pc[t] \in Sites /\ sub[t] \in {"w1", "w2"}
  /\ LET u == Update(Srv, t, pc[t])
     IN IF wres[t] = "ok"
          THEN IF sub[t] = "w1" /\ HasScreenshot(u)
                 THEN Step(WriteRecord(Srv, t, SecondRecord(u), "w2"))
                 ELSE Step(Continue(Srv, t, pc[t]))
        ELSE IF wres[t] = "ResponseAborted"
          THEN Step([Srv EXCEPT !.isAborted = TRUE, !.writerClosed = TRUE,
                                !.sub[t] = "wclose"])
        ELSE Step(Continue(Srv, t, pc[t]))

\* sendUpdate's catch after await writer.close(): releaseBrowser(browser).
ResumeWriterClose(t) ==
  /\ pc[t] \in Sites /\ sub[t] = "wclose"
  /\ Step([ReleaseOwn(Srv) EXCEPT !.sub[t] = "wrelease"])

\* sendUpdate's catch after await releaseBrowser(): throw CLIENT_DISCONNECTED.
ResumeWriterRelease(t) ==
  /\ pc[t] \in Sites /\ sub[t] = "wrelease"
  /\ Step(Thrown(Srv, t, pc[t]))

\* await Promise.race([page.goto(), timeoutPromise]) settles (line 239).
ResumeRace(t) ==
  /\ pc[t] = "race"
  /\ \/ Step(CallSend(Saw(Srv, t, "race", "ok"), t, "connected"))
     \/ \E c \in NavCodes : Step(InnerCatch(Saw(Srv, t, "race", "failed"), t, NavError(c, t)))
     \/ Step(InnerCatch(Saw(Srv, t, "race", "deadline"), t, <<"Timeout">>))

\* await page.title() settles (line 255).
ResumeTitle(t) ==
  /\ pc[t] = "title"
  /\ \/ \E x \in Titles :
          Step(CallSend(Saw([Srv EXCEPT !.title[t] = x], t, "title", x), t, "titlelog"))
     \/ FaultStep(InnerCatch(Fault(Srv, t, "title"), t, EngineError))

\* await page.screenshot() settles (lines 275-309).
ResumeScreenshot(t) ==
  /\ pc[t] = "screenshot"
  /\ \/ \E n \in ShotLengths :
          IF ScreenshotTooLarge(n) THEN Step(CallSend(Saw(Srv, t, "shot", n), t, "shotfail"))
          ELSE Step(CallSend(Saw(Srv, t, "shot", n), t, "success"))
     \/ Step(CallSend(Saw(Srv, t, "shot", -1), t, "shotfail"))

\* await page.close() settles at an isAborted checkpoint (lines 216, 235, 326).
ResumeAbortClose(t) ==
  /\ pc[t] \in {"abClose1", "abClose2", "abClose3"}
  /\ \/ Step(Return(ClosePage(Srv, t), t))
     \/ IF pc[t] = "abClose2" THEN FaultStep(InnerCatch(Fault(Srv, t, "close"), t, EngineError))
        ELSE FaultStep(OuterCatch(Fault(Srv, t, "close"), t, EngineError))

\* await page?.close() settles at line 349; sendUpdate(closed) follows.
ResumeClose(t) ==
  /\ pc[t] = "close"
  /\ \/ Step(CallSend(ClosePage(Srv, t), t, "closedlog"))
     \/ FaultStep(OuterCatch(Fault(Srv, t, "close"), t, EngineError))

\* await page?.close() settles in the outer catch (line 360).
ResumeCatchClose(t) ==
  /\ pc[t] = "catchClose"
  /\ \/ Step(OuterCatchRest(ClosePage(Srv, t), t))
     \/ FaultStep(Finish(Fault(Srv, t, "catchClose"), t, "threw"))

TaskNext(t) ==
  \/ ResumeNewPage(t) \/ ResumeSetViewport(t) \/ ResumeWrite(t) \/ ResumeRace(t)
  \/ ResumeTitle(t) \/ ResumeScreenshot(t) \/ ResumeAbortClose(t)
  \/ ResumeClose(t) \/ ResumeCatchClose(t)

\* The pool a request of Spec finds: no other request left a browser idle.
InitPools == {<<>>}

\* The tasks whose domains the provider of AggSpec sees.
AggTasks == 1..NumAggDomains
AggDomains == {DomainOf(t) : t \in AggTasks}
\* What was applied to a domain's record since it was created. last: the
\* title, screenshot and favicon of the last update that carried each; recv:
\* the log entries of the addResult updates, first: how many of them the
\* creating update carried; onlyAdd: nothing but addResult touched the record;
\* at: the time the last update was applied to it; stale: the recheck stream
\* being read for the domain was started before the last clearResults.
FreshHist == [last |-> Blank, recv |-> <<>>, first |-> 0, onlyAdd |-> FALSE, at |-> 0,
              stale |-> FALSE]
NoHistory == [d \in AggDomains |-> FreshHist]

\* The state before POST is called, but for the request body.
Constructed ==
  /\ mainPc = "getBrowser" /\ browser = Absent
  /\ browserPool \in InitPools /\ browserClosed = {}
  /\ isAborted = FALSE /\ abortPc = "none" /\ writerClosed = FALSE
  /\ streamErr = "none" /\ activeTasks = 0 /\ currentTldIndex = 0
  /\ chk = "off" /\ releases = 0
  /\ pc = [t \in Tasks |-> "pending"] /\ sub = [t \in Tasks |-> "-"]
  /\ wres = [t \in Tasks |-> "ok"] /\ err = [t \in Tasks |-> NoError]
  /\ page = [t \in Tasks |-> "none"] /\ pageId = [t \in Tasks |-> 0] /\ title = [t \in Tasks |-> ""]
  /\ sent = [t \in Tasks |-> <<>>] /\ faults = 0
  /\ engine = [t \in Tasks |-> [race |-> "-", title |-> "", shot |-> 0, fault |-> {}]]
  /\ tldIdx = [t \in Tasks |-> -1]
  /\ reqPc = [r \in Requests |-> "idle"] /\ reqBrowser = [r \in Requests |-> Absent]
  /\ launched = 0
  /\ results = <<>> /\ now = 0 /\ recheck = {} /\ hist = NoHistory /\ swept = FALSE
  /\ filters = [onlyScreenshots |-> FALSE, onlyLive |-> FALSE, onlyErrors |-> FALSE]
  /\ classified = <<>>
  /\ wire = <<>> /\ taken = 0 /\ reader = "none" /\ handed = <<>>

\* A keyword search: the body has no singleDomain.
Init == Constructed /\ singleDomain = <<>>

\* Spec: the consumer keeps reading the response, so no write is rejected
\* before the writer is closed.
Next ==
  \/ PostGetBrowser \/ PostLaunched \/ PostStart
  \/ AbortEvent \/ AbortRelease \/ CheckCompletion
  \/ \E t \in Tasks : TaskNext(t)

Spec == Init /\ [][Next]_vars

\* ========================================================== SingleSpec
\* One request whose body names a singleDomain, as recheckDomain sends it.
\* Every writer.write() is let settle, as if the readable side were read from
\* the start; the runs of RequestSpec, where a write waits for the pull, are
\* among the runs of this specification.
SingleDomains == {<<"example", ".", "org">>, <<keyword, ".", "net">>}
InitSingle == Constructed /\ singleDomain \in SingleDomains

SingleNext ==
  \/ PostGetBrowser \/ PostLaunched \/ PostStartSingle \/ PostAwaited
  \/ AbortEvent \/ AbortRelease \/ CheckCompletion
  \/ \E t \in Tasks : TaskNext(t)

SingleSpec == InitSingle /\ [][SingleNext]_vars

\* ========================================================== CancelSpec
\* One keyword search whose consumer may cancel or error the response stream
\* at any moment; the request's abort event does not fire.
CancelNext ==
  \/ PostGetBrowser \/ PostLaunched \/ PostStart
  \/ ConsumerCancel \/ CheckCompletion
  \/ \E t \in Tasks : TaskNext(t) \/ ResumeWriterClose(t) \/ ResumeWriterRelease(t)

CancelSpec == Init /\ [][CancelNext]_vars

\* ========================================================= RequestSpec
\* One request of either kind, with the backpressure of the stream. The
\* TransformStream of line 118 is built with the default strategies: its
\* readable side has high-water mark 0 and the stream starts with
\* backpressure on, so the promise of writer.write() settles only once the
\* readable side was pulled by a read. The readable side is reachable for a
\* reader only through the Response POST returns (line 407).
Pulled == mainPc = "serving"
\* Task t is suspended at a writer.write() of sendUpdate.
AtWrite(t) == pc[t] \in Sites /\ sub[t] \in {"w1", "w2"}

InitRequest == Constructed /\ singleDomain \in {<<>>} \cup SingleDomains

\* The awaits of task t; a pending write waits for the pull.
HeldTaskNext(t) == (AtWrite(t) => Pulled) /\ TaskNext(t)

\* The abort listener's await writer.close(): the close is queued behind the
\* writes that are pending, so it settles after them.
HeldAbortRelease == (Pulled \/ \A t \in Tasks : ~AtWrite(t)) /\ AbortRelease

\* The steps of the request itself: all but the client's abort event.
RequestProgress ==
  \/ PostGetBrowser \/ PostLaunched \/ PostStart \/ PostStartSingle \/ PostAwaited
  \/ HeldAbortRelease \/ CheckCompletion
  \/ \E t \in Tasks : HeldTaskNext(t)

RequestNext == RequestProgress \/ AbortEvent

RequestSpec == InitRequest /\ [][RequestNext]_vars

\* ============================================================ PoolSpec
\* Several requests on the module-level browserPool. Of POST only the calls
\* on the pool are kept: getBrowser at its start, releaseBrowser in its abort
\* listener, releaseBrowser in checkCompletion.
PoolStep ==
  UNCHANGED <<srvVars, aggVars, viewVars, classVars, reqVars, readVars>>

\* await getBrowser() of request r, or its retry after the 1 s wait.
ReqGetBrowser(r) ==
  /\ reqPc[r] \in {"idle", "waiting"}
  /\ LET g == getBrowser(browserPool)
     IN /\ browserPool' = g.pool
        /\ reqBrowser' = [reqBrowser EXCEPT ![r] = g.browser]
        /\ reqPc' = [reqPc EXCEPT ![r] =
                       CASE g.kind = "pooled" -> "holding"
                         [] g.kind = "launch" -> "launching"
                         [] g.kind = "wait" -> "waiting"]
  /\ UNCHANGED <<browserClosed, launched>>
  /\ PoolStep

\* puppeteer.launch() of request r resolves with a new browser.
ReqLaunched(r) ==
  /\ reqPc[r] = "launching"
  /\ launched' = launched + 1
  /\ reqBrowser' = [reqBrowser EXCEPT ![r] = launched + 1]
  /\ reqPc' = [reqPc EXCEPT ![r] = "holding"]
  /\ UNCHANGED <<browserPool, browserClosed>>
  /\ PoolStep

\* The abort listener of request r: releaseBrowser(browser).
ReqAbort(r) ==
  /\ reqPc[r] = "holding"
  /\ LET rel == releaseBrowser(browserPool, reqBrowser[r])
     IN /\ browserPool' = rel.pool
        /\ browserClosed' = browserClosed \cup rel.closed
  /\ reqPc' = [reqPc EXCEPT ![r] = "aborted"]
  /\ UNCHANGED <<reqBrowser, launched>>
  /\ PoolStep

\* checkCompletion of request r closes: releaseBrowser(browser).
ReqComplete(r) ==
  /\ reqPc[r] \in {"holding", "aborted"}
  /\ LET rel == releaseBrowser(browserPool, reqBrowser[r])
     IN /\ browserPool' = rel.pool
        /\ browserClosed' = browserClosed \cup rel.closed
  /\ reqPc' = [reqPc EXCEPT ![r] = "done"]
  /\ UNCHANGED <<reqBrowser, launched>>
  /\ PoolStep

PoolNext ==
  \E r \in Requests :
    ReqGetBrowser(r) \/ ReqLaunched(r) \/ ReqAbort(r) \/ ReqComplete(r)

PoolSpec == Init /\ [][PoolNext]_vars

\* C6: the browsers that exist (launched and not closed: idle in the pool or
\* held by a request) are at most MAX_POOL_SIZE.
C6_PoolBound == launched - Cardinality(browserClosed) <= MAX_POOL_SIZE

\* ============================================================= AggSpec
\* SearchProvider: results under addResult (the search stream), recheckDomain
\* (updateResult and addLog), clearResults and the 1 s sweep.

\* {...a, ...b}: the fields of b override, a field b sets to undefined reads
\* as absent afterwards.
spread(a, b) ==
  [f \in DOMAIN Blank |->
     IF f = "has" THEN (a.has \ b.undef) \cup b.has
     ELSE IF f = "undef" THEN {}
     ELSE IF f \in b.has THEN b[f]
     ELSE IF f \in b.undef THEN Blank[f]
     ELSE a[f]]

With(o, f, v) == [o EXCEPT ![f] = v, !.has = @ \cup {f}]

\* prev.findIndex(r => r.domain === domain), 1-based, 0 for -1
findIndex(prev, domain) ==
  IF \E i \in 1..Len(prev) : prev[i].domain = domain
    THEN CHOOSE i \in 1..Len(prev) :
           prev[i].domain = domain /\ \A j \in 1..(i - 1) : prev[j].domain # domain
    ELSE 0

\* result.logs || []
LogsOf(u) == IF "logs" \in u.has THEN u.logs ELSE <<>>

Starting == Log("Starting domain check...", "info")

\* A merge that replaces the log history by the update's.
addResultReplacingLogs(prev, result, t) ==
  LET i == findIndex(prev, result.domain)
  IN IF i > 0
       THEN [prev EXCEPT ![i] = With(spread(prev[i], result), "logs", LogsOf(result))]
       ELSE Append(prev, With(With(spread(Blank, result), "timestamp", t),
                              "logs", <<Starting>>))

\* A merge that never looks for the domain: every update becomes a record.
addResultAppending(prev, result, t) ==
  Append(prev, With(With(spread(Blank, result), "timestamp", t), "logs", <<Starting>>))

\* A merge in which an empty title does not replace a stored one.
addResultKeepingTitle(prev, result, t) ==
  LET i == findIndex(prev, result.domain)
      kept == IF i > 0 /\ "title" \in result.has /\ result.title = ""
                THEN [result EXCEPT !.has = @ \ {"title"}] ELSE result
  IN IF i > 0
       THEN [prev EXCEPT ![i] = With(spread(prev[i], kept), "logs",
                                     prev[i].logs \o LogsOf(result))]
       ELSE Append(prev, With(With(spread(Blank, result), "timestamp", t),
                              "logs", <<Starting>>))

\* addResult(result) at time t, as the function setResults applies to prev.
addResult(prev, result, t) ==
  LET i == findIndex(prev, result.domain)
  IN IF i > 0
       THEN [prev EXCEPT ![i] = With(spread(prev[i], result), "logs",
                                     prev[i].logs \o LogsOf(result))]
       ELSE Append(prev, With(With(spread(Blank, result), "timestamp", t),
                              "logs", <<Starting>>))

\* f: updates.f ?? existingResult.f, for title, screenshot and favicon
Coalesce(m, e, updates, f) ==
  IF f \in updates.has THEN m
  ELSE [m EXCEPT ![f] = e[f], !.has = IF f \in e.has THEN @ \cup {f} ELSE @ \ {f}]

\* A merge that replaces the log history by the update's logs.
updateResultReplacingLogs(prev, domain, updates) ==
  LET i == findIndex(prev, domain)
      e == prev[i]
      m == Coalesce(Coalesce(Coalesce(spread(e, updates), e, updates, "title"),
                             e, updates, "screenshot"), e, updates, "favicon")
  IN IF i = 0 THEN prev
     ELSE [prev EXCEPT ![i] = With(m, "logs", LogsOf(updates))]

\* updateResult(domain, updates), as the function setResults applies to prev.
updateResult(prev, domain, updates) ==
  LET i == findIndex(prev, domain)
      e == prev[i]
      m == Coalesce(Coalesce(Coalesce(spread(e, updates), e, updates, "title"),
                             e, updates, "screenshot"), e, updates, "favicon")
  IN IF i = 0 THEN prev
     ELSE [prev EXCEPT ![i] = With(m, "logs", e.logs \o LogsOf(updates))]

\* addLog(domain, log), as the function setResults applies to prev.
addLog(prev, domain, log) ==
  LET i == findIndex(prev, domain)
  IN IF i = 0 THEN prev
     ELSE [prev EXCEPT ![i] = With(prev[i], "logs", Append(prev[i].logs, log))]

TimedOut == Log("Request timed out after 35 seconds", "error")

\* A sweep that does not look at the status of the record.
sweepAnyStatus(prev, t) ==
  [i \in 1..Len(prev) |->
     IF (t - prev[i].timestamp) > timeoutThreshold
       THEN [With(With(With(prev[i], "status", "timeout"),
                       "error", "Request timed out after 35 seconds"),
                  "errorCode", "TIMEOUT")
               EXCEPT !.logs = Append(@, TimedOut)]
       ELSE prev[i]]

\* The function the interval callback passes to setResults, at time t.
sweep(prev, t) ==
  [i \in 1..Len(prev) |->
     IF prev[i].status = "loading" /\ (t - prev[i].timestamp) > timeoutThreshold
       THEN [With(With(With(prev[i], "status", "timeout"),
                       "error", "Request timed out after 35 seconds"),
                  "errorCode", "TIMEOUT")
               EXCEPT !.logs = Append(@, TimedOut)]
       ELSE prev[i]]

\* The object recheckDomain passes to updateResult at time t (lines 139-153).
ResetPatch(t) ==
  [Obj([status |-> "loading", title |-> "", screenshot |-> "", favicon |-> "",
        timestamp |-> t, logs |-> <<Log("Restarting domain check...", "info")>>])
     EXCEPT !.undef = {"error", "errorCode", "responseTime"}]

\* ---- the updates that arrive
\* The locals of a task that decide its updates.
TaskLocals == [err |-> [t \in Tasks |-> NavError("net::ERR_NAME_NOT_RESOLVED", t)],
               title |-> [t \in Tasks |-> "Example Domain"]]
\* Records route.ts writes for the domain of task t.
WireRecords(t) ==
  {FirstRecord(Update(TaskLocals, t, site)) :
     site \in {"loading", "attempt", "success", "shotfail", "fail", "internal"}}
    \cup {SecondRecord(Update(TaskLocals, t, "success"))}
\* Updates of the DomainUpdate shape that route.ts does not write: one with
\* a favicon, one with two log entries, one with an empty log array.
OtherUpdates(t) ==
  {Obj([domain |-> TaskDomain(t), favicon |-> "data:image/png"]),
   Obj([domain |-> TaskDomain(t),
        logs |-> <<Log("Attempting to connect to domain...", "info"),
                   Log("Successfully connected to domain", "success")>>]),
   Obj([domain |-> TaskDomain(t), logs |-> <<>>])}
Arriving == UNION {WireRecords(t) \cup OtherUpdates(t) : t \in AggTasks}

Carried == {"title", "screenshot", "favicon"}
Latest(h, u) ==
  [f \in DOMAIN Blank |->
     IF f = "has" THEN h.last.has \cup (u.has \cap Carried)
     ELSE IF f \in u.has \cap Carried THEN u[f] ELSE h.last[f]]
HistAfterAdd(h, u, created) ==
  IF created
    THEN [last |-> Latest(FreshHist, u), recv |-> LogsOf(u), first |-> Len(LogsOf(u)),
          onlyAdd |-> TRUE, at |-> now, stale |-> h.stale]
    ELSE [h EXCEPT !.last = Latest(h, u),
                   !.recv = IF h.onlyAdd THEN @ \o LogsOf(u) ELSE @, !.at = now]
HistAfterOther(h, u) ==
  [last |-> Latest(h, u), recv |-> <<>>, first |-> 0, onlyAdd |-> FALSE, at |-> now,
   stale |-> h.stale]
Exists(d) == findIndex(results, d) > 0
Record(d) == results[findIndex(results, d)]
Room(d, n) == IF Exists(d) THEN Len(Record(d).logs) + n <= MaxLogs ELSE TRUE

AggStep ==
  swept' = FALSE /\ UNCHANGED <<sharedVars, srvVars, poolVars, viewVars, classVars, reqVars, readVars>>

\* handleSubmit's reader applies a line of the search stream: addResult.
AddResult(u) ==
  /\ Room(u.domain, Len(LogsOf(u)))
  /\ results' = addResult(results, u, now)
  /\ hist' = [hist EXCEPT ![u.domain] = HistAfterAdd(@, u, ~Exists(u.domain))]
  /\ UNCHANGED <<now, recheck>>
  /\ AggStep

\* recheckDomain(domain), up to the await of fetch: the reset. Its caller is
\* the Recheck button of a record's card (ResultsDisplay.tsx:283-288), shown
\* for a record that is neither success nor loading.
RecheckDomain(d) ==
  /\ d \notin recheck
  /\ Exists(d) /\ Record(d).status \notin {"success", "loading"}
  /\ Room(d, 1)
  /\ results' = updateResult(results, d, ResetPatch(now))
  /\ recheck' = recheck \cup {d}
  /\ hist' = [hist EXCEPT ![d] = IF Exists(d) THEN HistAfterOther(@, ResetPatch(now)) ELSE @]
  /\ UNCHANGED now
  /\ AggStep

\* addLog for every entry of the update's logs (lines 180-187).
RECURSIVE addLogs(_, _, _)
addLogs(prev, d, logs) ==
  IF logs = <<>> THEN prev
  ELSE addLogs(addLog(prev, d, [message |-> Head(logs).message, type |-> Head(logs).type]),
               d, Tail(logs))

\* recheckDomain's reader applies an update of the recheck stream
\* (lines 179-191).
RecheckUpdate(d, u) ==
  /\ d \in recheck /\ u.domain = d
  /\ Room(d, 2 * Len(LogsOf(u)))
  /\ LET logged == addLogs(results, d, LogsOf(u))
         truthy(f) == f \in u.has /\ u[f] # ""
         applied == truthy("status") \/ truthy("screenshot") \/ truthy("title")
                      \/ truthy("favicon")
     IN /\ results' = IF applied THEN updateResult(logged, d, u) ELSE logged
        /\ hist' = [hist EXCEPT ![d] = IF Exists(d)
                                         THEN HistAfterOther(@, IF applied THEN u ELSE Blank)
                                         ELSE @]
  /\ UNCHANGED <<now, recheck>>
  /\ AggStep

\* The recheck stream ends (done), or fails (the catch of lines 193-203).
RecheckEnd(d) ==
  /\ d \in recheck
  /\ recheck' = recheck \ {d}
  /\ \/ /\ UNCHANGED results
        /\ hist' = [hist EXCEPT ![d].stale = FALSE]
     \/ /\ Room(d, 1)
        /\ results' = addLog(updateResult(results, d,
                               Obj([status |-> "internal_error",
                                    error |-> "Failed to recheck domain",
                                    errorCode |-> "RECHECK_FAILED"])),
                             d, Log("Failed to recheck domain", "error"))
        /\ hist' = [hist EXCEPT ![d] = [IF Exists(d) THEN HistAfterOther(@, Blank) ELSE @
                                          EXCEPT !.stale = FALSE]]
  /\ UNCHANGED now
  /\ AggStep

\* clearResults(), called by handleSubmit.
ClearResults ==
  /\ results' = <<>>
  /\ hist' = [d \in AggDomains |-> [FreshHist EXCEPT !.stale = d \in recheck]]
  /\ UNCHANGED <<now, recheck>>
  /\ AggStep

\* The interval callback of the provider's effect.
Sweep ==
  /\ results' = sweep(results, now)
  /\ hist' = [d \in AggDomains |->
                IF Exists(d) /\ Record(d) # sweep(results, now)[findIndex(results, d)]
                  THEN [HistAfterOther(hist[d], Blank) EXCEPT !.at = hist[d].at]
                  ELSE hist[d]]
  /\ swept' = TRUE
  /\ UNCHANGED <<now, recheck, sharedVars, srvVars, poolVars, viewVars, classVars, reqVars, readVars>>

\* Time passes.
Tick ==
  /\ now < MaxTicks * TickMs
  /\ now' = now + TickMs
  /\ UNCHANGED <<results, recheck, hist>>
  /\ AggStep

AggNext ==
  \/ \E u \in Arriving : AddResult(u)
  \/ \E d \in AggDomains : RecheckDomain(d) \/ RecheckEnd(d)
  \/ \E d \in AggDomains, u \in Arriving : RecheckUpdate(d, u)
  \/ ClearResults \/ Sweep \/ Tick

AggSpec == Init /\ [][AggNext]_vars

\* ======================================================== ClassifySpec
\* getErrorDetails on the failures the inner catch of processNextDomain can
\* hand it (line 330), for several keywords and TLDs.

\* The kinds of failure: the deadline, the navigation failure codes of the
\* engine, of which net::ERR_ABORTED stands for the unrecognised ones, and an
\* exception of the engine that is no navigation failure.
FailureKinds ==
  {"Timeout", "net::ERR_CONNECTION_REFUSED", "net::ERR_NAME_NOT_RESOLVED",
   "net::ERR_CERT_AUTHORITY_INVALID", "net::ERR_SSL_PROTOCOL_ERROR",
   "net::ERR_INVALID_RESPONSE", "net::ERR_ABORTED", "Protocol"}
\* The keywords and TLDs of the domains the failures are reported for.
ClassifyKeywords == {"shop", "sslshop", "ssl", "cafe"}
ClassifyTlds == {"com", "net", "zone", "wiki"}
\* error.message of a failure of a kind for the domain kw.tld: the deadline's
\* Error is 'Timeout' (line 222), puppeteer's reads '<code> at https://<domain>'.
MessageOf(kind, kw, tld) ==
  CASE kind = "Timeout" -> <<"Timeout">>
    [] kind = "Protocol" -> EngineError
    [] OTHER -> <<kind, "at", "https://", kw, ".", tld>>
Failures ==
  {[kind |-> k, domain |-> <<kw, ".", tld>>, message |-> MessageOf(k, kw, tld)] :
     k \in FailureKinds, kw \in ClassifyKeywords, tld \in ClassifyTlds}

\* The inner catch classifies a failure (line 330); the two latest are kept.
Classify(f) ==
  /\ classified' = <<[failure |-> f, details |-> getErrorDetails(f.message)]>>
                     \o (IF classified = <<>> THEN <<>> ELSE <<classified[1]>>)
  /\ UNCHANGED <<sharedVars, srvVars, poolVars, aggVars, viewVars, reqVars, readVars>>

ClassifyNext == \E f \in Failures : Classify(f)

ClassifySpec == Init /\ [][ClassifyNext]_vars

\* ============================================================ ViewSpec
\* filteredResults: the useMemo over results and filters (lines 207-255).

\* The names ViewSpec creates records for, in the order of creation.
ViewTlds == SubSeq(<<"com", "net", "zone", "wiki", "vip", "xyz">>, 1, MaxShown)
ViewDomains == {<<keyword, ".", ViewTlds[i]>> : i \in 1..Len(ViewTlds)}
\* The names in the order String.prototype.localeCompare ranks them.
Collation == <<"com", "net", "vip", "wiki", "xyz", "zone">>
Rank(domain) == CHOOSE i \in 1..Len(Collation) : Collation[i] = domain[3]
localeCompare(a, b) == Rank(a) - Rank(b)

\* statusOrder[r.status] ?? 999
statusOrder(r) ==
  IF "status" \notin r.has THEN 999
  ELSE CASE r.status = "success" -> 0
         [] r.status = "loading" -> 1
         [] r.status = "timeout" -> 2
         [] r.status = "connection_refused" -> 3
         [] r.status = "dns_error" -> 4
         [] r.status = "ssl_error" -> 5
         [] r.status = "invalid_response" -> 6
         [] r.status = "internal_error" -> 7
         [] OTHER -> 999

IsSuccess(r) == "status" \in r.has /\ r.status = "success"
\* a.isHighPriority as === compares it: undefined, false or true
Priority(r) == IF "isHighPriority" \in r.has THEN <<r.isHighPriority>> ELSE <<>>
\* a.responseTime && b.responseTime: undefined and 0 are falsy
Truthy(r) == "responseTime" \in r.has /\ r.responseTime # 0

\* The comparator passed to sort (lines 221-254).
compare(a, b) ==
  IF statusOrder(a) # statusOrder(b) THEN statusOrder(a) - statusOrder(b)
  ELSE IF IsSuccess(a) /\ IsSuccess(b) /\ Priority(a) # Priority(b)
    THEN (IF Priority(a) = <<TRUE>> THEN -1 ELSE 1)
  ELSE IF IsSuccess(a) /\ IsSuccess(b) /\ Truthy(a) /\ Truthy(b)
    THEN a.responseTime - b.responseTime
  ELSE localeCompare(a.domain, b.domain)

\* A predicate that tests the live toggle before the purchasable one.
keepLiveFirst(result, f) ==
  IF f.onlyLive /\ result.status # "success" THEN FALSE
  ELSE IF f.onlyScreenshots THEN result.status = "dns_error"
  ELSE IF f.onlyErrors /\ result.status = "success" THEN FALSE
  ELSE TRUE

\* The predicate passed to filter (lines 208-218).
keep(result, f) ==
  IF f.onlyScreenshots THEN result.status = "dns_error"
  ELSE IF f.onlyLive /\ result.status # "success" THEN FALSE
  ELSE IF f.onlyErrors /\ result.status = "success" THEN FALSE
  ELSE TRUE

RECURSIVE filter(_, _)
filter(rs, f) ==
  IF rs = <<>> THEN <<>>
  ELSE IF keep(Head(rs), f) THEN <<Head(rs)>> \o filter(Tail(rs), f)
  ELSE filter(Tail(rs), f)

\* Array.prototype.sort is stable: x goes before the first element that the
\* comparator ranks after it.
RECURSIVE insert(_, _)
insert(sorted, x) ==
  IF sorted = <<>> THEN <<x>>
  ELSE IF compare(Head(sorted), x) > 0 THEN <<x>> \o sorted
  ELSE <<Head(sorted)>> \o insert(Tail(sorted), x)
RECURSIVE sort(_)
sort(rs) == IF rs = <<>> THEN <<>> ELSE insert(sort(SubSeq(rs, 1, Len(rs) - 1)), rs[Len(rs)])

filteredResults(rs, f) == sort(filter(rs, f))

\* ---- the states ViewSpec ranks
\* Response times of the success updates.
ViewTimes == {100, 200}
ViewDomain(i) == <<keyword, ".", ViewTlds[i]>>
\* The first update of a domain: the loading update, or a log-only update
\* when the loading line was lost.
ViewFirst(i) ==
  {Obj([domain |-> ViewDomain(i), status |-> "loading", title |-> "", screenshot |-> "",
        isHighPriority |-> isHighPriorityTld(ViewTlds[i]),
        logs |-> <<Log("Starting domain check...", "info")>>]),
   Obj([domain |-> ViewDomain(i),
        logs |-> <<Log("Attempting to connect to domain...", "info")>>])}
\* The terminal updates ViewSpec draws from.
ViewTerminal(i) ==
  {Obj([domain |-> ViewDomain(i), status |-> "success", title |-> "Example Domain",
        responseTime |-> rt, isHighPriority |-> isHighPriorityTld(ViewTlds[i])]) :
     rt \in ViewTimes}
  \cup {Obj([domain |-> ViewDomain(i), status |-> st, title |-> "", screenshot |-> "",
             responseTime |-> 100, isHighPriority |-> isHighPriorityTld(ViewTlds[i])]) :
          st \in {"dns_error", "connection_refused"}}

ViewStep ==
  UNCHANGED <<sharedVars, srvVars, poolVars, classVars, reqVars, readVars, now, recheck, hist, swept>>

\* The first update of the next domain arrives: addResult creates its record.
ViewCreate ==
  /\ Len(results) < Len(ViewTlds)
  /\ \E u \in ViewFirst(Len(results) + 1) : results' = addResult(results, u, now)
  /\ UNCHANGED filters
  /\ ViewStep

\* The terminal update of a domain that has none yet arrives.
ViewSettle(i) ==
  /\ i <= Len(results)
  /\ statusOrder(results[i]) \in {1, 999}
  /\ \E u \in ViewTerminal(i) : results' = addResult(results, u, now)
  /\ UNCHANGED filters
  /\ ViewStep

\* setFilters(newFilters) with one toggle: {...prev, ...newFilters} (line 298).
SetFilters(k, v) ==
  /\ filters[k] # v
  /\ filters' = [filters EXCEPT ![k] = v]
  /\ UNCHANGED results
  /\ ViewStep

ViewNext ==
  \/ ViewCreate
  \/ \E i \in 1..Len(ViewTlds) : ViewSettle(i)
  \/ \E k \in {"onlyScreenshots", "onlyLive", "onlyErrors"}, v \in BOOLEAN : SetFilters(k, v)

ViewSpec == Init /\ [][ViewNext]_vars

\* ========================================================== ReaderSpec
\* The response body between route.ts and a reader loop: the server writes
\* records, the transport hands the characters over in chunks of any length,
\* the loop of handleSubmit or of recheckDomain decodes each chunk by itself.

\* JSON.stringify(update) + '\n' (lines 152-174 of route.ts), as characters:
\* the braces of the object, its content as one character, the newline.
\* The content of the k-th record.
Content(k) == ToString(k)
stringify(k) == <<"{", Content(k), "}">>
Line(k) == stringify(k) \o <<"\n">>

\* text.split('\n')
RECURSIVE split(_)
split(text) ==
  IF \E i \in 1..Len(text) : text[i] = "\n"
    THEN LET i == CHOOSE j \in 1..Len(text) :
                    text[j] = "\n" /\ \A h \in 1..(j - 1) : text[h] # "\n"
         IN <<SubSeq(text, 1, i - 1)>> \o split(SubSeq(text, i + 1, Len(text)))
    ELSE <<text>>

\* .filter(Boolean): the empty strings are dropped.
NonEmpty(l) == l # <<>>
filterBoolean(lines) == SelectSeq(lines, NonEmpty)

\* JSON.parse(line) returns for the text of one whole object and throws a
\* SyntaxError for any other text.
Parses(line) ==
  /\ Len(line) = 3 /\ line[1] = "{" /\ line[3] = "}"
  /\ \E k \in 1..MaxRecords : line[2] = Content(k)
parse(line) == line[2]

\* A reader that keeps the unfinished end of a chunk for the next one is what
\* the loops are not: each chunk is decoded and split by itself.
RECURSIVE parseAll(_)
parseAll(lines) == IF lines = <<>> THEN <<>> ELSE <<parse(Head(lines))>> \o parseAll(Tail(lines))

\* handleSubmit, lines 61-74: every line that parses is applied, a line that
\* does not is logged and skipped.
searchChunk(text) == parseAll(SelectSeq(filterBoolean(split(text)), Parses))

\* recheckDomain, lines 176-191: map(JSON.parse) runs over all lines before
\* any update is applied, and its exception leaves the loop.
recheckThrows(text) == \E i \in 1..Len(filterBoolean(split(text))) : ~Parses(filterBoolean(split(text))[i])
recheckChunk(text) == IF recheckThrows(text) THEN <<>> ELSE parseAll(filterBoolean(split(text)))

ReadStep == UNCHANGED <<sharedVars, srvVars, poolVars, aggVars, viewVars, classVars, reqVars>>

\* fetch resolved and the loop of handleSubmit or recheckDomain starts.
OpenReader(kind) ==
  /\ reader = "none"
  /\ reader' = kind
  /\ UNCHANGED <<wire, taken, handed>>
  /\ ReadStep

\* sendUpdate writes its next record to the stream.
ServerWrite ==
  /\ reader # "none" /\ Len(wire) < 4 * MaxRecords
  /\ wire' = wire \o Line(Len(wire) \div 4 + 1)
  /\ UNCHANGED <<taken, reader, handed>>
  /\ ReadStep

\* await reader.read() resolves with the next n characters, and the loop
\* body runs on them.
Deliver(n) ==
  /\ reader \in {"search", "recheck"}
  /\ taken + n <= Len(wire)
  /\ taken' = taken + n
  /\ LET text == SubSeq(wire, taken + 1, taken + n)
     IN IF reader = "search"
          THEN handed' = handed \o searchChunk(text) /\ reader' = reader
          ELSE /\ handed' = handed \o recheckChunk(text)
               /\ reader' = IF recheckThrows(text) THEN "failed" ELSE reader
  /\ UNCHANGED wire
  /\ ReadStep

ReaderNext ==
  \/ \E kind \in {"search", "recheck"} : OpenReader(kind)
  \/ ServerWrite
  \/ \E n \in 1..MaxChunk : Deliver(n)

ReaderSpec == Init /\ [][ReaderNext]_vars

\* =================================================== claims under Spec
Ended == {"done", "returned", "threw"}
\* Task t has started and its invocation of processNextDomain is not over.
InFlight(t) == pc[t] \notin Ended \cup {"pending"}
AllEnded == mainPc = "serving" /\ \A t \in Tasks : pc[t] \in Ended
TerminalStatuses == {"success", "timeout", "connection_refused", "dns_error",
                     "ssl_error", "invalid_response", "internal_error"}
IsTerminal(rec) == "status" \in rec.has /\ rec.status \in TerminalStatuses
HasTerminal(t) == \E i \in 1..Len(sent[t]) : IsTerminal(sent[t][i])

\* C1: at every moment at most MAX_CONCURRENT_PAGES tasks have started and
\* not yet finished.
C1_Ceiling == Cardinality({t \in Tasks : InFlight(t)}) <= MAX_CONCURRENT_PAGES

\* The ceiling is reached again after a task ended and was replaced.
C1_Witness ==
  /\ Cardinality({t \in Tasks : InFlight(t)}) = MAX_CONCURRENT_PAGES
  /\ \E t \in Tasks : pc[t] = "done"

\* C2: in a run that is not cancelled every domain of the list is started
\* and gets a terminal status update; stated on the runs that have come to
\* rest: when no task is in flight any more, no domain is without one.
C2_EveryDomainTerminal ==
  (mainPc = "serving" /\ ~isAborted /\ \A t \in Tasks : ~InFlight(t))
    => \A t \in Tasks : HasTerminal(t)

\* C3: in a run that is not cancelled, once every task has ended
\* checkCompletion finds activeTasks = 0 with the list exhausted (and so
\* closes the writer at its next poll).
C3_ClosesWhenAllEnded ==
  (AllEnded /\ ~isAborted) => (activeTasks = 0 /\ currentTldIndex >= Len(TLDS))

\* C4: once isAborted is set, no record is written to the stream any more,
\* the second record of a split update included.
C4_NoWriteAfterAbort == [][isAborted => sent' = sent]_vars

\* The abort arrived while sendUpdate awaited the first write of a split
\* update, and the write of the screenshot record was then rejected.
C4_Witness ==
  \E t \in Tasks : isAborted /\ pc[t] = "success" /\ sub[t] = "w2" /\ wres[t] = "TypeError"

\* C5: after cancellation every page a task opened is closed and the browser
\* is back in the pool or closed; stated on the runs that have come to rest.
C5_NothingLeftOpen ==
  (isAborted /\ AllEnded /\ abortPc = "done")
    => /\ releases >= 1
       /\ \A t \in Tasks : page[t] = "open" => browser \in browserClosed

\* The Browser on which task t opens its page: the one POST acquired.
TaskBrowser(t) == browser
Using(t) == InFlight(t) /\ page[t] = "open"

Terminals(t) == SelectSeq(sent[t], IsTerminal)
Carries(rec, status, code) ==
  /\ {"status", "errorCode", "title", "screenshot"} \subseteq rec.has
  /\ rec.status = status /\ rec.errorCode = code

\* What does hold for the deadline (C16 but for the second terminal update):
\* a task whose race of line 239 was settled by the deadline timer has
\* written, unless the request was cancelled by then, a terminal update of
\* status timeout and errorCode TIMEOUT with empty title and screenshot, and
\* that is the first terminal update it writes; the only other terminal update
\* such a task ever writes is the internal_error that follows it when closing
\* the page raised afterwards.
C16_DeadlineIsTimeout ==
  \A t \in Tasks : engine[t].race = "deadline" =>
    LET ts == Terminals(t)
    IN /\ ~isAborted => Len(ts) >= 1
       /\ Len(ts) >= 1 =>
            /\ Carries(ts[1], "timeout", "TIMEOUT")
            /\ ts[1].title = "" /\ ts[1].screenshot = ""
       /\ \A i \in 2..Len(ts) :
            /\ engine[t].fault # {}
            /\ ts[i].status = "internal_error" /\ ts[i].errorCode = "INTERNAL_ERROR"
       /\ engine[t].fault = {} => Len(ts) <= 1

\* C16 as stated: in a request that is not cancelled, such a task writes a
\* terminal update and every terminal update it writes is the timeout one.
C16_OnlyTimeout ==
  \A t \in Tasks : (engine[t].race = "deadline" /\ ~isAborted) =>
    /\ Len(Terminals(t)) >= 1
    /\ \A i \in 1..Len(Terminals(t)) :
         /\ Carries(Terminals(t)[i], "timeout", "TIMEOUT")
         /\ Terminals(t)[i].title = "" /\ Terminals(t)[i].screenshot = ""

\* A task ended after the deadline fired, in a request that was not cancelled.
C16_Witness ==
  \E t \in Tasks :
    /\ engine[t].race = "deadline" /\ pc[t] = "done" /\ ~isAborted
    /\ Len(Terminals(t)) = 1 /\ Terminals(t)[1].status = "timeout"

\* The capture of task t threw, or returned more than the cap.
CaptureFailed(t) == engine[t].shot = -1 \/ engine[t].shot > 500000
\* Task t wrote a record of the success update: its status record, or the
\* screenshot record that follows it.
WroteSuccess(t) ==
  \E i \in 1..Len(sent[t]) :
    \/ "status" \in sent[t][i].has /\ sent[t][i].status = "success"
    \/ "type" \in sent[t][i].has /\ sent[t][i].type = "screenshot"

\* C17: a task writes the success update only after a capture of length at
\* most 500,000; a task whose capture threw or was longer has written, unless
\* the request was cancelled by then, exactly one terminal update, which is
\* invalid_response with errorCode SCREENSHOT_FAILED, the title the task read
\* and an empty screenshot.
C17_ScreenshotCap ==
  \A t \in Tasks :
    /\ WroteSuccess(t) => engine[t].shot \in 1..500000
    /\ CaptureFailed(t) =>
         LET ts == Terminals(t)
         IN /\ ~isAborted => Len(ts) = 1
            /\ Len(ts) <= 1
            /\ Len(ts) = 1 =>
                 /\ Carries(ts[1], "invalid_response", "SCREENSHOT_FAILED")
                 /\ ts[1].title = engine[t].title /\ ts[1].title # ""
                 /\ ts[1].screenshot = ""

\* One task succeeded with a capture of exactly 500,000 characters and another
\* ended on a capture of 500,001.
C17_Witness ==
  \E t, u \in Tasks :
    /\ engine[t].shot = 500000 /\ WroteSuccess(t) /\ pc[t] \in Ended
    /\ engine[u].shot = 500001 /\ Len(Terminals(u)) = 1 /\ pc[u] \in Ended
    /\ ~isAborted

\* C18: in a request that is not cancelled, a task in which an awaited engine
\* call other than the navigation raised (creating the page, sizing it,
\* reading the title, closing the page) ends having written a terminal update
\* of status internal_error and errorCode INTERNAL_ERROR, and ends through
\* lines 382-385, where the scheduler starts the next pending domain.
C18_FaultIsInternalError ==
  \A t \in Tasks : (engine[t].fault # {} /\ pc[t] \in Ended /\ ~isAborted) =>
    /\ \E i \in 1..Len(Terminals(t)) :
         /\ Terminals(t)[i].status = "internal_error"
         /\ Terminals(t)[i].errorCode = "INTERNAL_ERROR"
    /\ pc[t] = "done"

\* Record rec is a screenshot-only record: a screenshot and no status.
ScreenshotOnly(rec) == "screenshot" \in rec.has /\ "status" \notin rec.has
\* Record rec is the status record of an update that carried a screenshot;
\* of the updates of processNextDomain only the success update carries one.
StatusOfSplit(rec) == "status" \in rec.has /\ rec.status = "success"
Synthetic(rec) ==
  /\ "screenshot" \notin rec.has
  /\ Len(rec.logs) = 1 /\ rec.logs[1].message = "Processing screenshot..."
Messages(t) ==
  [i \in 1..Len(sent[t]) |->
     IF sent[t][i].logs = <<>> THEN "" ELSE sent[t][i].logs[1].message]

Sized(t) == pc[t] = "setViewport" /\ pc'[t] # pc[t] /\ engine'[t].fault = engine[t].fault
Connected(t) == pc[t] = "race" /\ engine'[t].race = "ok"
TitleRead(t) == pc[t] = "title" /\ engine'[t].title # ""
Captured(t) == pc[t] = "screenshot" /\ engine'[t].shot # 0
\* A write sendUpdate awaited for task t was rejected, and the task resumes.
Rejected(t) ==
  /\ pc[t] \in Sites /\ sub[t] \in {"w1", "w2"} /\ wres[t] = "TypeError"
  /\ <<pc'[t], sub'[t]>> # <<pc[t], sub[t]>>

\* C20: sendUpdate called after cancellation writes nothing and throws
\* CLIENT_DISCONNECTED to the calling task, which goes on in the catch that
\* receives it (closing its page) and not at the statement after the call;
\* a write the closed stream rejects inside sendUpdate writes nothing and
\* sendUpdate returns normally, the task going on after the call.
C20_AbortRaises ==
  [][\A t \in Tasks :
       /\ (isAborted /\ (Sized(t) \/ Connected(t) \/ TitleRead(t) \/ Captured(t))) =>
            /\ sent'[t] = sent[t]
            /\ sub'[t] = "-"
            /\ pc'[t] = IF Sized(t) THEN "catchClose" ELSE "abClose3"
       /\ Rejected(t) =>
            /\ sent'[t] = sent[t]
            /\ pc[t] = "loading" => pc'[t] = "abClose1"
            /\ pc[t] = "attempt" => pc'[t] = "abClose2"
            /\ pc[t] = "connected" => pc'[t] = "title"
            /\ pc[t] = "taking" => pc'[t] = "screenshot"
            /\ pc[t] = "shotfail" => pc'[t] = "returned"
            /\ pc[t] \in {"success", "fail", "closedlog", "internal"} => pc'[t] = "done"]_vars

\* C20 as stated: sendUpdate called after cancellation writes nothing and
\* returns, so that a task whose navigation has just succeeded goes on to
\* read the title (line 255).
C20_ReturnsNormally ==
  [][\A t \in Tasks :
       (isAborted /\ Connected(t)) => (sent'[t] = sent[t] /\ pc'[t] = "title")]_vars

\* The navigation of a task succeeded after the cancellation and the
\* sendUpdate of line 246 threw: the task is in the inner catch, about to
\* close its page, having read no title.
C20_Witness ==
  \E t \in Tasks :
    /\ isAborted /\ pc[t] = "abClose3"
    /\ engine[t] = [race |-> "ok", title |-> "", shot |-> 0, fault |-> {}]

\* The domains whose task has not ended, started or not.
Unfinished == {t \in Tasks : pc[t] \notin Ended}

\* C27: while the request is served and not cancelled, the number of tasks
\* in flight is the smaller of the ceiling and the number of domains whose
\* task has not ended, and activeTasks is that number.
C27_FullOccupancy ==
  (mainPc = "serving" /\ ~isAborted) =>
    LET n == Cardinality(Unfinished)
        full == IF n < MAX_CONCURRENT_PAGES THEN n ELSE MAX_CONCURRENT_PAGES
    IN /\ Cardinality({t \in Tasks : InFlight(t)}) = full
       /\ activeTasks = full

\* C28: a task that has ended has no page open: the page it opened, if any,
\* was closed before, unless page.close() itself raised.
C28_PageClosedAtEnd ==
  \A t \in Tasks :
    (pc[t] \in Ended /\ engine[t].fault \cap {"close", "catchClose"} = {}) =>
      page[t] # "open"

\* C29: no task writes more than one record whose status is a terminal one.
C29_OneTerminal ==
  \A t \in Tasks : Len(Terminals(t)) <= 1

\* The tasks whose invocation passed the guard of line 189.
Probing == {t \in Tasks : pc[t] # "pending"}

C32_ClosedOnlyWhenIdle ==
  (writerClosed /\ ~isAborted) =>
    /\ \A t \in Tasks : pc[t] \in Ended
    /\ currentTldIndex = Len(TLDS) /\ activeTasks = 0

\* checkCompletion closed the stream of a run that was not cancelled, after
\* three tasks ended of which the last was started as a replacement.
C32_Witness ==
  /\ writerClosed /\ ~isAborted /\ chk = "done"
  /\ \A t \in Tasks : pc[t] = "done" /\ HasTerminal(t)

\* C34: while the run is not cancelled, activeTasks is the number of tasks
\* that have started and whose invocation is not over.
C34_CounterIsInFlight ==
  ~isAborted => activeTasks = Cardinality({t \in Tasks : InFlight(t)})

\* C35: the request calls releaseBrowser at most once for the browser it
\* acquired, and not while a task has a page open on it; the idle pool holds
\* no browser twice and none that was closed.
C35_ReleasedOnce ==
  /\ releases <= 1
  /\ releases = 1 => \A t \in Tasks : ~Using(t)
  /\ \A i, j \in 1..Len(browserPool) : i # j => browserPool[i] # browserPool[j]
  /\ \A i \in 1..Len(browserPool) : browserPool[i] \notin browserClosed

\* ============================================= claims under SingleSpec
Started == {t \in Tasks : pc[t] # "pending"}

\* C21: in a request with singleDomain at most one invocation of
\* processNextDomain is ever started, whatever became of it; it takes no TLD
\* from the list, and every record it writes names the literal singleDomain.
C21_OneTaskOnly ==
  /\ Cardinality(Started) <= 1
  /\ mainPc \in {"awaiting", "serving", "rejected"} => Started = {1}
  /\ currentTldIndex = 0
  /\ \A t \in Tasks : \A i \in 1..Len(sent[t]) : sent[t][i].domain = singleDomain

\* The one task of a request for example.org ran to its end and wrote its
\* updates; the request was not cancelled and the response has been returned.
C21_Witness ==
  /\ singleDomain = <<"example", ".", "org">> /\ mainPc = "serving" /\ ~isAborted
  /\ pc[1] = "done" /\ HasTerminal(1) /\ activeTasks = 0

\* ============================================ claims under RequestSpec
\* The response was returned, the task's terminal update was written and the
\* stream is closed.
Completed == mainPc = "serving" /\ writerClosed /\ HasTerminal(1)

\* C36: a single-domain request that is not cancelled completes: in every
\* state it has completed or a step of the request is possible.
C36_SingleCompletes ==
  (singleDomain # <<>> /\ ~isAborted) => (Completed \/ ENABLED RequestProgress)

\* ============================================= claims under CancelSpec
\* A write of task t was rejected because the consumer cancelled or errored
\* the stream, and sendUpdate resumes in this step.
ConsumerRejected(t) ==
  /\ pc[t] \in Sites /\ sub[t] \in {"w1", "w2"} /\ wres[t] \notin {"ok", "TypeError"}
  /\ <<pc'[t], sub'[t]>> # <<pc[t], sub[t]>>

\* C26: when sendUpdate resumes from a write the consumer's closing of the
\* stream rejected, whatever the error, the run is cancelled from then on:
\* isAborted is set, and no task is started in that step or later in a run
\* whose consumer has gone.
C26_RejectedWriteCancels ==
  [][/\ \A t \in Tasks : ConsumerRejected(t) => isAborted'
     /\ (\E t \in Tasks : wres[t] \notin {"ok", "TypeError"}) =>
          \A u \in Tasks : pc[u] = "pending" => pc'[u] = "pending"]_vars

\* ================================================ claims under AggSpec
OnlyAdded(d) == Exists(d) /\ hist[d].onlyAdd

\* C8: after any sequence of updates addResult applied for one domain, the
\* record's title, screenshot and favicon are each the value of the last
\* update that carried the field, and absent if none did: an update without
\* the field leaves the stored value as it was.
C8_LastCarriedWins ==
  \A d \in AggDomains :
    OnlyAdded(d) =>
      \A f \in Carried :
        /\ (f \in Record(d).has) = (f \in hist[d].last.has)
        /\ Record(d)[f] = hist[d].last[f]

\* A record whose title, screenshot and favicon came from different updates,
\* the title update being followed by updates without a title.
C8_Witness ==
  \E d \in AggDomains :
    /\ OnlyAdded(d)
    /\ Record(d).title = "Example Domain"
    /\ Record(d).screenshot # "" /\ "favicon" \in Record(d).has
    /\ Len(hist[d].recv) >= 2

C10_SweepTimesOutOnce ==
  [][swept' =>
       /\ Len(results') = Len(results)
       /\ \A i \in 1..Len(results) :
            IF results[i].status = "loading"
                 /\ (now - results[i].timestamp) > timeoutThreshold
              THEN /\ results'[i].status = "timeout"
                   /\ results'[i].errorCode = "TIMEOUT"
                   /\ "errorCode" \in results'[i].has
                   /\ Len(results'[i].logs) = Len(results[i].logs) + 1
                   /\ SubSeq(results'[i].logs, 1, Len(results[i].logs)) = results[i].logs
                   /\ results'[i].logs[Len(results'[i].logs)].type = "error"
              ELSE results[i].status # "loading" => results'[i] = results[i]]_vars

\* The sweep has just run and left a record it timed out with one timeout entry.
C10_Witness ==
  /\ swept
  /\ \E i \in 1..Len(results) :
       /\ results[i].status = "timeout" /\ results[i].errorCode = "TIMEOUT"
       /\ (now - results[i].timestamp) > timeoutThreshold
       /\ Len(results[i].logs) >= 2
       /\ results[i].logs[Len(results[i].logs)] = TimedOut
       /\ results[i].logs[Len(results[i].logs) - 1] # TimedOut

\* The record of domain d in the list rs.
RecordIn(rs, d) == rs[findIndex(rs, d)]
Restarting == Log("Restarting domain check...", "info")
\* A step in which recheckDomain(d) made its reset of an existing record.
Resets(d) == d \notin recheck /\ d \in recheck' /\ Exists(d)
\* What the reset leaves of the fields other than logs.
ResetFields(r) ==
  /\ r.status = "loading" /\ "status" \in r.has
  /\ r.title = "" /\ r.screenshot = "" /\ r.favicon = ""
  /\ r.has \cap {"error", "errorCode", "responseTime"} = {}

RecordAfter(d) == results'[findIndex(results', d)]
\* The step is the reset of recheckDomain(d).
ResetOf(d) == d \in recheck' /\ d \notin recheck

\* C22: a step of the provider other than the reset of recheckDomain and
\* clearResults never turns a non-empty title, screenshot or favicon of a
\* record into the empty string.
C22_EmptyKeepsValue ==
  [][\A d \in AggDomains :
       (Exists(d) /\ findIndex(results', d) > 0 /\ ~ResetOf(d)) =>
         \A f \in Carried : Record(d)[f] # "" => RecordAfter(d)[f] # ""]_vars

\* In this step addResult or updateResult was applied to the record domain d
\* already had: the record changed, in more than its logs when the step may
\* be one of addLog alone, and the step is not the sweep.
NoLogs(r) == [r EXCEPT !.logs = <<>>]
AppliedTo(d) ==
  /\ Exists(d) /\ findIndex(results', d) > 0 /\ ~swept'
  /\ IF d \in recheck THEN NoLogs(RecordAfter(d)) # NoLogs(Record(d))
     ELSE RecordAfter(d) # Record(d)

\* C23: a step in which addResult or updateResult is applied to an existing
\* record leaves the record's timestamp at the time of the step.
C23_TimestampRefreshed ==
  [][\A d \in AggDomains : AppliedTo(d) => RecordAfter(d).timestamp = now]_vars

\* C30: when the sweep turns a loading record into timeout, the last update
\* applied to that record (a log-only update included) was applied at least
\* 35 s before.
C30_SweepCountsFromLastUpdate ==
  [][\A d \in AggDomains :
       (swept' /\ Exists(d) /\ Record(d).status = "loading"
          /\ RecordAfter(d).status = "timeout") =>
         now - hist[d].at >= 35000]_vars

\* C25: after every step of the provider no two records of results have the
\* same domain, and a domain that had a record has one still, unless the
\* step emptied results (clearResults).
C25_OnePerDomain ==
  [][/\ \A i, j \in 1..Len(results') :
          i # j => results'[i].domain # results'[j].domain
     /\ \A d \in AggDomains :
          (Exists(d) /\ findIndex(results', d) = 0) => results' = <<>>
     /\ Len(results') >= Len(results) \/ results' = <<>>]_vars

\* The record of a domain went through addResult, the reset of recheckDomain
\* and the sweep, and is still the only one.
C25_Witness ==
  \E d \in AggDomains :
    /\ Len(results) = 1 /\ Exists(d) /\ d \in recheck /\ swept
    /\ Record(d).status = "timeout" /\ Len(Record(d).logs) >= 3

\* C33: a step in which recheckDomain's reader applies an update u of the
\* recheck stream to the record of domain d appends the log entries of u to
\* the record's history, once and in their order, and nothing else.
C33_RecheckLogsOnce ==
  [][\A d \in AggDomains, u \in Arriving :
       (RecheckUpdate(d, u) /\ Exists(d)) =>
         RecordAfter(d).logs = Record(d).logs \o LogsOf(u)]_vars

\* C38: a record whose status is success has no error and no errorCode.
C38_SuccessHasNoError ==
  \A i \in 1..Len(results) :
    results[i].status = "success" =>
      "error" \notin results[i].has /\ "errorCode" \notin results[i].has

\* C39: a recheck stream that was being read when clearResults ran changes
\* no record of the result set built after the clear, neither by an update
\* it delivers nor by its failure.
C39_NoStaleUpdate ==
  [][\A d \in AggDomains :
       (hist[d].stale /\ Exists(d)
        /\ (RecheckEnd(d) \/ \E u \in Arriving : RecheckUpdate(d, u))) =>
         RecordAfter(d) = Record(d)]_vars

\* ================================================ claims under ViewSpec
shown == filteredResults(results, filters)
\* a comes before b in the stated order: status bucket, then among success
\* records high priority first, then ascending responseTime, then domain name.
Precedes(a, b) ==
  LET bothSuccess == IsSuccess(a) /\ IsSuccess(b)
  IN \/ statusOrder(a) < statusOrder(b)
     \/ /\ statusOrder(a) = statusOrder(b)
        /\ \/ bothSuccess /\ a.isHighPriority /\ ~b.isHighPriority
           \/ /\ bothSuccess => a.isHighPriority = b.isHighPriority
              /\ \/ bothSuccess /\ a.responseTime < b.responseTime
                 \/ /\ bothSuccess => a.responseTime = b.responseTime
                    /\ Rank(a.domain) < Rank(b.domain)

\* C12: filteredResults is ordered by status bucket, then among success
\* records high priority first, then ascending responseTime, then domain
\* name: no record is shown after one it comes before in that order.
C12_OrderedByKey ==
  \A i, j \in 1..Len(shown) : i < j => ~Precedes(shown[j], shown[i])

\* The statuses and the order of the records of a list.
Statuses(rs) == [i \in 1..Len(rs) |-> IF "status" \in rs[i].has THEN rs[i].status ELSE "none"]
Names(rs) == [i \in 1..Len(rs) |-> rs[i].domain[3]]
\* The list [dns_error, success(high priority, 200), loading,
\* success(low priority, 100), connection_refused] is shown as success(high
\* priority), success(low priority), loading, connection_refused, dns_error.
ExampleOrder ==
  (/\ Statuses(results) = <<"dns_error", "success", "loading", "success", "connection_refused">>
   /\ results[2].responseTime = 200 /\ results[4].responseTime = 100
   /\ filters = [onlyScreenshots |-> FALSE, onlyLive |-> FALSE, onlyErrors |-> FALSE])
    => Names(shown) = <<"net", "wiki", "zone", "vip", "com">>

\* The records of a list as a set.
Range(rs) == {rs[i] : i \in 1..Len(rs)}

\* C13: with onlyScreenshots on, filteredResults holds exactly the records
\* whose status is dns_error, each once, whatever onlyLive and onlyErrors are.
C13_PurchasableOnly ==
  filters.onlyScreenshots =>
    /\ Range(shown) = {r \in Range(results) : r.status = "dns_error"}
    /\ Len(shown) = Cardinality(Range(shown))

\* The purchasable filter is on together with the live toggle, over records
\* that are dns_error, success and loading.
C13_Witness ==
  /\ filters.onlyScreenshots /\ filters.onlyLive
  /\ Len(shown) >= 1
  /\ \E r \in Range(results) : r.status = "success"
  /\ \E r \in Range(results) : r.status = "loading"

\* C40: with onlyErrors on and the other two filters off, filteredResults
\* holds only records in a failure status: none that is success and none
\* that is loading.
C40_ErrorsOnly ==
  (filters.onlyErrors /\ ~filters.onlyLive /\ ~filters.onlyScreenshots) =>
    \A r \in Range(shown) : r.status \notin {"success", "loading"}

\* C24: on the records the provider holds, which have distinct domains, the
\* comparator is a strict total order: it returns a non-zero result for two
\* different records, its sign is reversed when the arguments are swapped,
\* and it is transitive.
C24_StrictTotalOrder ==
  \A i, j, k \in 1..Len(results) :
    LET a == results[i]
        b == results[j]
        c == results[k]
    IN /\ i # j => compare(a, b) # 0
       /\ (compare(a, b) < 0) <=> (compare(b, a) > 0)
       /\ (compare(a, b) < 0 /\ compare(b, c) < 0) => compare(a, c) < 0

\* ============================================ claims under ClassifySpec
\* The rules in the order they are tried: the exact message, or the needles
\* of which one must occur in the lower-cased message.
Rules ==
  <<[exact |-> <<"Timeout">>, needles |-> {}, status |-> "timeout", code |-> "TIMEOUT"],
    [exact |-> <<>>, needles |-> {"net::err_connection_refused"},
     status |-> "connection_refused", code |-> "CONNECTION_REFUSED"],
    [exact |-> <<>>, needles |-> {"net::err_name_not_resolved"},
     status |-> "dns_error", code |-> "DNS_ERROR"],
    [exact |-> <<>>, needles |-> {"net::err_cert_", "ssl"},
     status |-> "ssl_error", code |-> "SSL_ERROR"],
    [exact |-> <<>>, needles |-> {"net::err_invalid_response"},
     status |-> "invalid_response", code |-> "INVALID_RESPONSE"]>>
Matches(message, rule) ==
  \/ rule.exact # <<>> /\ message = rule.exact
  \/ \E n \in rule.needles : includes(message, n)
FirstMatch(message) ==
  IF \E i \in 1..Len(Rules) : Matches(message, Rules[i])
    THEN LET i == CHOOSE k \in 1..Len(Rules) :
                    /\ Matches(message, Rules[k])
                    /\ \A j \in 1..(k - 1) : ~Matches(message, Rules[j])
         IN <<Rules[i].status, Rules[i].code>>
    ELSE <<"internal_error", "UNKNOWN_ERROR">>

\* C14: getErrorDetails returns for every Error exactly one of the six
\* status/code pairs: that of the first rule, in the order timeout,
\* connection_refused, dns_error, ssl_error, invalid_response, that matches
\* its message, and internal_error/UNKNOWN_ERROR when none does; the same
\* message always gets the same pair.
C14_FirstMatchingRule ==
  /\ \A i \in 1..Len(classified) :
       <<classified[i].details.status, classified[i].details.code>>
         = FirstMatch(classified[i].failure.message)
  /\ \A i, j \in 1..Len(classified) :
       classified[i].failure.message = classified[j].failure.message
         => classified[i].details = classified[j].details

\* A message that matches two rules was classified by the earlier one, and a
\* message that matches none was classified as well.
C14_Witness ==
  /\ Len(classified) = 2
  /\ Matches(classified[1].failure.message, Rules[4])
  /\ Matches(classified[1].failure.message, Rules[5])
  /\ classified[1].details.status = "ssl_error"
  /\ classified[2].details.code = "UNKNOWN_ERROR"

\* C15: the status of a failure depends on its kind only: two failures of
\* one kind reported for different domains get the same status, an invalid
\* response is invalid_response and an unrecognised failure internal_error.
C15_KindDecides ==
  /\ \A i, j \in 1..Len(classified) :
       classified[i].failure.kind = classified[j].failure.kind
         => classified[i].details.status = classified[j].details.status
  /\ \A i \in 1..Len(classified) :
       /\ classified[i].failure.kind = "net::ERR_INVALID_RESPONSE"
            => classified[i].details.status = "invalid_response"
       /\ classified[i].failure.kind \in {"net::ERR_ABORTED", "Protocol"}
            => classified[i].details.status = "internal_error"

\* ============================================== claims under ReaderSpec
\* The contents of the records the server wrote, in order.
Written == [k \in 1..(Len(wire) \div 4) |-> Content(k)]

\* C37: once a reader has been handed every character the server wrote, it
\* has applied every record written, once each and in order, however the
\* characters were cut into chunks.
C37_EveryRecordOnce ==
  (reader # "none" /\ taken = Len(wire)) => handed = Written
====
